---- MODULE Spec2Model ----
(***************************************************************************)
(* Model of scripts/translate_ru_to_uz.py: the RU -> UZ static-site        *)
(* translator (cache, batching translation client, HTML extraction and     *)
(* reinsertion, locale annotation, run driver).                            *)
(***************************************************************************)
EXTENDS Integers, Sequences, FiniteSets, TLC

(***************************************************************************)
(* Texts are sequences of one-character strings.                           *)
(***************************************************************************)
tA == <<"a">>
tBB == <<"b", "b">>
tCCC == <<"c", "c", "c">>
tE == <<"e">>
tM == <<"m">>
tBlank == <<" ">>

\* link.string of the control injected into source pages (line 294)
SwitcherUzLabel == <<"O", "'", "z", "b", "e", "k", "c", "h", "a">>
\* link.string of the control injected into translated pages (line 286)
SwitcherRuLabel == <<"R", "u", "s", "s", "k", "i", "y">>

\* Python None, as a value that is no text
NoneVal == <<"None">>

IsWs(c) == c \in {" ", "\n", "\t"}

RECURSIVE LStrip(_)
LStrip(t) == IF t # <<>> /\ IsWs(Head(t)) THEN LStrip(Tail(t)) ELSE t

RECURSIVE RStrip(_)
RStrip(t) ==
  IF t # <<>> /\ IsWs(t[Len(t)]) THEN RStrip(SubSeq(t, 1, Len(t) - 1)) ELSE t

\* str.strip()
Strip(t) == RStrip(LStrip(t))

Min(a, b) == IF a < b THEN a ELSE b
Max(a, b) == IF a > b THEN a ELSE b

RECURSIVE SeqToSet(_)
SeqToSet(s) == IF s = <<>> THEN {} ELSE {Head(s)} \cup SeqToSet(Tail(s))

RECURSIVE Flatten(_)
Flatten(ss) == IF ss = <<>> THEN <<>> ELSE Head(ss) \o Flatten(Tail(ss))

IndexOf(s, x) == CHOOSE k \in 1..Len(s) : s[k] = x

(***************************************************************************)
(* Documents: an arena of nodes.  Node 1 is the BeautifulSoup object;      *)
(* every node stores its parent's index and the ordered indices of its     *)
(* children.                                                               *)
(***************************************************************************)
NoAttrs == [a \in {} |-> <<>>]

MkTag(name, attrs) ==
  [kind |-> "tag", name |-> name, attrs |-> attrs, text |-> <<>>,
   parent |-> 0, kids |-> <<>>]

MkText(t) ==
  [kind |-> "text", name |-> "", attrs |-> NoAttrs, text |-> t,
   parent |-> 0, kids |-> <<>>]

MkComment(t) ==
  [kind |-> "comment", name |-> "", attrs |-> NoAttrs, text |-> t,
   parent |-> 0, kids |-> <<>>]

\* <!DOCTYPE html>: bs4's Doctype is a NavigableString whose text is "html"
DoctypeText == <<"h", "t", "m", "l">>

MkDoctype ==
  [kind |-> "doctype", name |-> "", attrs |-> NoAttrs, text |-> DoctypeText,
   parent |-> 0, kids |-> <<>>]

\* isinstance(element, NavigableString): Comment and Doctype are subclasses
IsNavigableString(n) == n.kind \in {"text", "comment", "doctype"}

EmptySoup ==
  <<[kind |-> "doc", name |-> "[document]", attrs |-> NoAttrs, text |-> <<>>,
     parent |-> 0, kids |-> <<>>]>>

\* Tag.append(node): node becomes the last child of p
AppendChild(tree, p, node) ==
  LET id == Len(tree) + 1
  IN  Append([tree EXCEPT ![p].kids = Append(@, id)],
             [node EXCEPT !.parent = p])

\* Tag.insert(0, node): node becomes the first child of p
InsertFirst(tree, p, node) ==
  LET id == Len(tree) + 1
  IN  Append([tree EXCEPT ![p].kids = <<id>> \o @],
             [node EXCEPT !.parent = p])

\* a document given as its nodes in document order, each with its parent
RECURSIVE DocFrom(_, _)
DocFrom(tree, items) ==
  IF items = <<>> THEN tree
  ELSE DocFrom(AppendChild(tree, Head(items)[1], Head(items)[2]), Tail(items))

RECURSIVE PreOrder(_, _)
RECURSIVE PreOrderAll(_, _)
\* the node id followed by its descendants, in document order
PreOrder(tree, id) == <<id>> \o PreOrderAll(tree, tree[id].kids)
PreOrderAll(tree, ids) ==
  IF ids = <<>> THEN <<>>
  ELSE PreOrder(tree, Head(ids)) \o PreOrderAll(tree, Tail(ids))

\* Tag.descendants
Descendants(tree, id) == Tail(PreOrder(tree, id))

\* Tag.decompose() / PageElement.extract(): unlink the node from its parent
Unlink(tree, id) ==
  LET p == tree[id].parent
  IN  [tree EXCEPT ![p].kids = SelectSeq(@, LAMBDA k : k # id),
                   ![id].parent = 0]

\* str(soup) followed by a later parse: only nodes still linked to the
\* document are written, and they are numbered in document order
Serialize(tree) ==
  LET order == PreOrder(tree, 1)
      NewId(old) == IF old = 0 THEN 0 ELSE IndexOf(order, old)
  IN  [k \in 1..Len(order) |->
        [tree[order[k]] EXCEPT
           !.parent = NewId(@),
           !.kids = [j \in 1..Len(@) |-> NewId(@[j])]]]

\* the proper ancestors of a node
RECURSIVE Ancestors(_, _)
Ancestors(tree, id) ==
  IF tree[id].parent = 0 THEN {}
  ELSE {tree[id].parent} \cup Ancestors(tree, tree[id].parent)

(***************************************************************************)
(* Extraction (Document Extractor)                                         *)
(***************************************************************************)
EXCLUDED_TAGS == {"script", "style", "code", "pre", "noscript"}
TRANSLATE_ATTRS == {"title", "alt", "aria-label", "placeholder"}
META_DESC_SELECTORS == <<<<"name", "description">>, <<"property", "og:description">>>>

\* the text nodes of the document that are translated, in document order
extract_text_nodes(soup) ==
  SelectSeq(Descendants(soup, 1),
    LAMBDA id :
      /\ IsNavigableString(soup[id])
      /\ soup[id].kind # "comment"
      /\ ~ (/\ soup[id].parent # 0
            /\ soup[soup[id].parent].name # ""
            /\ soup[soup[id].parent].name \in EXCLUDED_TAGS)
      /\ Strip(soup[id].text) # <<>>)

\* soup.find_all(True): every tag, in document order
AllTags(soup) ==
  SelectSeq(Descendants(soup, 1), LAMBDA id : soup[id].kind = "tag")

\* the (value, tag, attribute) items of one tag, attributes in the
\* iteration order of the TRANSLATE_ATTRS set
RECURSIVE TagAttrItems(_, _, _)
TagAttrItems(soup, id, order) ==
  IF order = <<>> THEN <<>>
  ELSE LET attr == Head(order)
           rest == TagAttrItems(soup, id, Tail(order))
       IN  IF /\ attr \in DOMAIN soup[id].attrs
              /\ Strip(soup[id].attrs[attr]) # <<>>
           THEN <<<<soup[id].attrs[attr], id, attr>>>> \o rest
           ELSE rest

extract_attr_texts(soup, order) ==
  LET tags == SelectSeq(AllTags(soup),
                        LAMBDA id : soup[id].name \notin EXCLUDED_TAGS)
  IN  Flatten([k \in 1..Len(tags) |-> TagAttrItems(soup, tags[k], order)])

\* soup.find_all('meta', attrs={attr: value})
MetaTags(soup, attr, value) ==
  SelectSeq(AllTags(soup),
    LAMBDA id : /\ soup[id].name = "meta"
                /\ attr \in DOMAIN soup[id].attrs
                /\ soup[id].attrs[attr] = value)

extract_meta_descriptions(soup) ==
  Flatten([s \in 1..Len(META_DESC_SELECTORS) |->
    LET tags == SelectSeq(
                  MetaTags(soup, META_DESC_SELECTORS[s][1], META_DESC_SELECTORS[s][2]),
                  LAMBDA id : /\ "content" \in DOMAIN soup[id].attrs
                              /\ soup[id].attrs["content"] # <<>>
                              /\ Strip(soup[id].attrs["content"]) # <<>>)
    IN  [k \in 1..Len(tags) |-> <<soup[tags[k]].attrs["content"], tags[k]>>]])

(***************************************************************************)
(* Locale Annotator                                                        *)
(***************************************************************************)
\* Tag.find(...): the first descendant of `from` in document order among
\* the tags `matching`, 0 (None) when there is none
Find(tree, from, matching) ==
  LET hits == SelectSeq(Descendants(tree, from),
                        LAMBDA id : tree[id].kind = "tag" /\ id \in matching)
  IN  IF hits = <<>> THEN 0 ELSE hits[1]

FindTag(tree, from, name) ==
  Find(tree, from, {id \in 1..Len(tree) : tree[id].name = name})

\* '../' * n
RECURSIVE UpLevels(_)
UpLevels(n) == IF n <= 0 THEN <<>> ELSE <<"..">> \o UpLevels(n - 1)

\* rel_path.count('/'): a relative path is the sequence of its segments
Depth(rel_path) == Len(rel_path) - 1

\* a translated page climbs only as far as its source page would
AltHref_NoExtraLevel(rel_path, is_uz_page) ==
  IF is_uz_page
  THEN UpLevels(Depth(rel_path)) \o rel_path
  ELSE (IF Depth(rel_path) > 0 THEN UpLevels(Depth(rel_path)) ELSE <<>>)
         \o <<"uz">> \o rel_path

\* the target of the link injected into a page (lines 257-259, 264-266)
AltHref(rel_path, is_uz_page) ==
  IF is_uz_page
  THEN UpLevels(Depth(rel_path) + 1) \o rel_path
  ELSE (IF Depth(rel_path) > 0 THEN UpLevels(Depth(rel_path)) ELSE <<>>)
         \o <<"uz">> \o rel_path

\* lines 237-248: a document without <html> gets <html><body>, and every
\* top-level node that is no Doctype moves into the new body
EnsureHtml(soup) ==
  IF FindTag(soup, 1, "html") # 0 THEN soup
  ELSE
    LET htmlId == Len(soup) + 1
        bodyId == Len(soup) + 2
        moved == SelectSeq(soup[1].kids, LAMBDA k : soup[k].kind # "doctype")
        kept == SelectSeq(soup[1].kids, LAMBDA k : soup[k].kind = "doctype")
        reparented == [k \in 1..Len(soup) |->
                         IF k = 1 THEN [soup[k] EXCEPT !.kids = Append(kept, htmlId)]
                         ELSE IF k \in SeqToSet(moved)
                              THEN [soup[k] EXCEPT !.parent = bodyId]
                              ELSE soup[k]]
    IN  reparented
          \o <<[MkTag("html", NoAttrs) EXCEPT !.parent = 1, !.kids = <<bodyId>>],
               [MkTag("body", NoAttrs) EXCEPT !.parent = htmlId, !.kids = moved]>>

\* lines 251-254
EnsureHead(soup) ==
  IF FindTag(soup, 1, "head") # 0 THEN soup
  ELSE InsertFirst(soup, FindTag(soup, 1, "html"), MkTag("head", NoAttrs))

LangOf(tag) ==
  IF "lang" \in DOMAIN tag.attrs /\ tag.attrs["lang"] # "" THEN tag.attrs["lang"]
  ELSE "ru"

set_lang_and_hreflang(soup, rel_path, is_uz_page) ==
  LET s1 == EnsureHtml(soup)
      html_tag == FindTag(s1, 1, "html")
      lang == IF is_uz_page THEN "uz" ELSE LangOf(s1[html_tag])
      s2 == [s1 EXCEPT ![html_tag].attrs = [a \in (DOMAIN @) \cup {"lang"} |->
                                              IF a = "lang" THEN lang ELSE @[a]]]
      s3 == EnsureHead(s2)
      head == FindTag(s3, 1, "head")
      link == MkTag("link",
                [rel |-> "alternate",
                 hreflang |-> IF is_uz_page THEN "ru" ELSE "uz",
                 href |-> AltHref(rel_path, is_uz_page)])
  IN  AppendChild(s3, head, link)

\* the declarations of the style attribute of the injected control (line 275)
SwitcherStyle == <<"position:fixed", "bottom:12px", "right:12px", "z-index:9999">>

inject_language_switcher(soup, rel_path, is_uz_page) ==
  LET body == FindTag(soup, 1, "body")
  IN  IF body = 0 THEN soup
      ELSE
        LET s1 == AppendChild(soup, body, MkTag("div", [style |-> SwitcherStyle]))
            container == Len(s1)
            s2 == AppendChild(s1, container,
                    MkTag("a", [href |-> AltHref(rel_path, is_uz_page),
                                hreflang |-> IF is_uz_page THEN "ru" ELSE "uz"]))
            link == Len(s2)
        IN  AppendChild(s2, link,
              MkText(IF is_uz_page THEN SwitcherRuLabel ELSE SwitcherUzLabel))

\* lines 357-361: the control found by its style is removed
IsSwitcherDiv(n) ==
  /\ n.name = "div"
  /\ "style" \in DOMAIN n.attrs
  /\ {"position:fixed", "bottom:12px"} \subseteq SeqToSet(n.attrs["style"])

RemoveExistingSwitcher(soup) ==
  LET body == FindTag(soup, 1, "body")
      existing == IF body = 0 THEN 0
                  ELSE Find(soup, body, {id \in 1..Len(soup) : IsSwitcherDiv(soup[id])})
  IN  IF existing = 0 THEN soup ELSE Unlink(soup, existing)

\* lines 364-368
IsAltLink(n, lang) ==
  /\ n.name = "link"
  /\ "rel" \in DOMAIN n.attrs /\ n.attrs["rel"] = "alternate"
  /\ "hreflang" \in DOMAIN n.attrs /\ n.attrs["hreflang"] = lang

RemoveExistingHreflang(soup) ==
  LET head == FindTag(soup, 1, "head")
      existing == IF head = 0 THEN 0
                  ELSE Find(soup, head, {id \in 1..Len(soup) : IsAltLink(soup[id], "uz")})
  IN  IF existing = 0 THEN soup ELSE Unlink(soup, existing)

\* lines 376-379 / 404-407: the doctype line of the file that was read
HasDoctype(soup) ==
  soup[1].kids # <<>> /\ soup[soup[1].kids[1]].kind = "doctype"

\* lines 381-387 / 424-430: serialisation, the 'html<html' fix-up and the
\* re-prepended doctype
OutHtml(soup, orig_doctype) ==
  LET kids == soup[1].kids
      quirk == /\ Len(kids) >= 2
               /\ soup[kids[1]].kind = "text"
               /\ soup[kids[1]].text = DoctypeText
               /\ soup[kids[2]].kind = "tag" /\ soup[kids[2]].name = "html"
      s1 == IF quirk THEN Unlink(soup, kids[1]) ELSE soup
      s2 == IF orig_doctype /\ ~ HasDoctype(s1)
            THEN InsertFirst(s1, 1, MkDoctype) ELSE s1
  IN  Serialize(s2)

\* the tree written back by process_russian_html_file for the file `html`
process_russian_html_file(html, rel_path) ==
  LET s1 == RemoveExistingSwitcher(html)
      s2 == RemoveExistingHreflang(s1)
      s3 == set_lang_and_hreflang(s2, rel_path, FALSE)
      s4 == inject_language_switcher(s3, rel_path, FALSE)
  IN  OutHtml(s4, HasDoctype(html))

\* lines 421-431: the annotation and serialisation of a translated page
\* whose source file was `html`
write_translated(tree, html, rel_path) ==
  OutHtml(inject_language_switcher(set_lang_and_hreflang(tree, rel_path, TRUE),
                                   rel_path, TRUE),
          HasDoctype(html))

(***************************************************************************)
(* Glossary                                                                *)
(***************************************************************************)
IsPrefixAt(t, k, sub) ==
  /\ k + Len(sub) - 1 <= Len(t)
  /\ SubSeq(t, k, k + Len(sub) - 1) = sub

\* str.replace(old, new), every non-overlapping occurrence from the left
RECURSIVE ReplaceFrom(_, _, _, _)
ReplaceFrom(t, k, old, new) ==
  IF k > Len(t) THEN (IF old = <<>> THEN new ELSE <<>>)
  ELSE IF old = <<>> THEN new \o <<t[k]>> \o ReplaceFrom(t, k + 1, old, new)
  ELSE IF IsPrefixAt(t, k, old) THEN new \o ReplaceFrom(t, k + Len(old), old, new)
  ELSE <<t[k]>> \o ReplaceFrom(t, k + 1, old, new)

Replace(t, old, new) == ReplaceFrom(t, 1, old, new)

\* re.compile fails (re.error) on a pattern with an unbalanced parenthesis;
\* the patterns of the model are otherwise literal
IsBadPattern(source) == "(" \in SeqToSet(source)

\* the rules after the first one are left out
apply_pre_glossary_FirstRuleOnly(text, glossary) ==
  IF glossary = <<>> THEN text
  ELSE IF Head(glossary)[3] \in {"dt", "exact"}
       THEN Replace(text, Head(glossary)[1], Head(glossary)[2])
       ELSE text

RECURSIVE apply_pre_glossary(_, _)
apply_pre_glossary(text, glossary) ==
  IF glossary = <<>> THEN text
  ELSE LET source == Head(glossary)[1]
           target == Head(glossary)[2]
           mode == Head(glossary)[3]
           t1 == IF mode = "dt" \/ mode = "exact" THEN Replace(text, source, target)
                 ELSE IF mode = "regex" /\ ~ IsBadPattern(source)
                      THEN Replace(text, source, target)
                      ELSE text
       IN  apply_pre_glossary(t1, Tail(glossary))

RECURSIVE apply_post_glossary(_, _)
apply_post_glossary(text, glossary) ==
  IF glossary = <<>> THEN text
  ELSE LET target == Head(glossary)[2]
           mode == Head(glossary)[3]
           t1 == IF mode \in {"dt", "exact"} THEN Replace(text, target, target)
                 ELSE text
       IN  apply_post_glossary(t1, Tail(glossary))

(***************************************************************************)
(* Translation Cache                                                       *)
(***************************************************************************)
EmptyMap == [t \in {} |-> <<>>]

\* CacheStore.__init__ (lines 41-48): what json.loads produced is kept,
\* whatever its type; only a missing or unparseable file gives {}
LoadCache(file) ==
  IF file.kind = "dict" THEN [isDict |-> TRUE, map |-> file.map]
  ELSE IF file.kind = "list" THEN [isDict |-> FALSE, map |-> EmptyMap]
  ELSE [isDict |-> TRUE, map |-> EmptyMap]

\* CacheStore.get on a dict: dict.get(text)
CacheGet(c, text) == IF text \in DOMAIN c.map THEN c.map[text] ELSE NoneVal

\* the new entry takes the place of all the others
CacheSet_Forgets(c, text, translated) ==
  [c EXCEPT !.map = [t \in {text} |-> translated]]

\* CacheStore.set
CacheSet(c, text, translated) ==
  [c EXCEPT !.map = [t \in (DOMAIN @) \cup {text} |->
                       IF t = text THEN translated ELSE @[t]]]

\* CacheStore.save: json.dumps of whatever self.cache is
SaveCache(c) ==
  IF c.isDict THEN [kind |-> "dict", map |-> c.map]
  ELSE [kind |-> "list", map |-> EmptyMap]

(***************************************************************************)
(* Translation Client                                                      *)
(***************************************************************************)
\* one attempt too many
ATTEMPTS_Seven == 6 + 1

\* range(6), line 114
ATTEMPTS == 6
\* the re-raise of line 124 tested against an index the loop never reaches
LAST_ATTEMPT_Never == 5 + 1

\* the last index at which a transport failure is re-raised, line 124
LAST_ATTEMPT == 5
\* min(30.0, ...), lines 122 and 127
MAX_BACKOFF == 30
\* the window of the rate limiter, line 108
WINDOW == 60

\* the count limit tested with <= instead of <
RECURSIVE BuildBatch_CountOffByOne(_, _, _, _, _, _)
BuildBatch_CountOffByOne(txts, k, b, batch_chars, batch_size, max_chars) ==
  IF k < Len(txts) /\ Len(b) <= batch_size
  THEN LET next_text == txts[k + 1]
       IN  IF batch_chars + Len(next_text) > max_chars /\ b # <<>>
           THEN [i |-> k, batch |-> b]
           ELSE BuildBatch_CountOffByOne(txts, k + 1, Append(b, next_text),
                           batch_chars + Len(next_text), batch_size, max_chars)
  ELSE [i |-> k, batch |-> b]

\* lines 95-103: the batch starting at texts[i] (i counts from 0)
RECURSIVE BuildBatch(_, _, _, _, _, _)
BuildBatch(txts, k, b, batch_chars, batch_size, max_chars) ==
  IF k < Len(txts) /\ Len(b) < batch_size
  THEN LET next_text == txts[k + 1]
       IN  IF batch_chars + Len(next_text) > max_chars /\ b # <<>>
           THEN [i |-> k, batch |-> b]
           ELSE BuildBatch(txts, k + 1, Append(b, next_text),
                           batch_chars + Len(next_text), batch_size, max_chars)
  ELSE [i |-> k, batch |-> b]

\* what the service answers for one text: a text it leaves empty, or the
\* text marked as translated
ServiceText(t) == IF t = tE THEN <<>> ELSE <<"~">> \o t

\* translate_batch, lines 85-86: one translation per text, in request order
ServiceTranslate(b) == [k \in 1..Len(b) |-> ServiceText(b[k])]

\* the backoff doubles without a ceiling
NextBackoff_Uncapped(b) == b * 2

\* backoff = min(30.0, backoff * 2.0)
NextBackoff(b) == Min(MAX_BACKOFF, b * 2)

(***************************************************************************)
(* Bounds and inputs                                                       *)
(***************************************************************************)
\* runs of the program over the same directory
MaxRuns == 2
\* longest input of a direct call of translate
MaxTexts == 2
\* largest batch_size / max_chars / rpm of a direct call of translate
MaxBatchSize == 2
MaxChars == 2
MaxRpm == 2
\* passes of the outer loop of translate that are followed
MaxPasses == 3

\* <!DOCTYPE html><html><head><meta name=description content="a"></head>
\* <body><p>a</p><p>e</p><img alt="a"><script>a</script><!--a--> </body></html>
DocIndex ==
  DocFrom(EmptySoup, <<
    <<1, MkDoctype>>,
    <<1, MkTag("html", NoAttrs)>>,
    <<3, MkTag("head", NoAttrs)>>,
    <<4, MkTag("meta", [name |-> "description", content |-> tA])>>,
    <<3, MkTag("body", NoAttrs)>>,
    <<6, MkTag("p", NoAttrs)>>,
    <<7, MkText(tA)>>,
    <<6, MkTag("p", NoAttrs)>>,
    <<9, MkText(tE)>>,
    <<6, MkTag("img", [alt |-> tA])>>,
    <<6, MkTag("script", NoAttrs)>>,
    <<12, MkText(tA)>>,
    <<6, MkComment(tA)>>,
    <<6, MkText(tBlank)>> >>)

\* <html><body><pre><b alt="m">ccc</b></pre><p>e</p><p>a</p></body></html>
DocPage ==
  DocFrom(EmptySoup, <<
    <<1, MkTag("html", NoAttrs)>>,
    <<2, MkTag("body", NoAttrs)>>,
    <<3, MkTag("pre", NoAttrs)>>,
    <<4, MkTag("b", [alt |-> tM])>>,
    <<5, MkText(tCCC)>>,
    <<3, MkTag("p", NoAttrs)>>,
    <<7, MkText(tE)>>,
    <<3, MkTag("p", NoAttrs)>>,
    <<9, MkText(tA)>> >>)

RelIndex == <<"index.html">>
RelPage == <<"docs", "page.html">>
RelPdf == <<"doc.pdf">>

\* the bytes of a file that is no HTML document
PdfBytes ==
  <<[kind |-> "bytes", name |-> "", attrs |-> NoAttrs, text |-> <<"%">>,
     parent |-> 0, kids |-> <<>>]>>

\* Path.suffix of the file names of the corpus
Suffix(name) ==
  CASE name \in {"index.html", "page.html"} -> ".html"
    [] name = "doc.pdf" -> ".pdf"
    [] OTHER -> ""

\* is_html_file, lines 299-300
is_html_file(path) == Suffix(path[Len(path)]) \in {".html", ".htm"}

\* dst_root relative to src_root: the uz subdirectory (lines 482-483)
DstRel == <<"uz">>

\* Path.is_relative_to
UnderRoot(path, root) ==
  Len(path) >= Len(root) /\ SubSeq(path, 1, Len(root)) = root

\* nothing is skipped
SkipsOutput_Never(path) == FALSE

\* lines 526-528: the walk leaves out what lies under the output root
SkipsOutput(path) == UnderRoot(path, DstRel)

\* the file at a path below the source root
FileAt(src, dst, path) ==
  IF UnderRoot(path, DstRel) THEN dst[SubSeq(path, Len(DstRel) + 1, Len(path))]
  ELSE src[path]

\* the source trees: the files in the order src_root.rglob('*') yields them
Corpora ==
  { << [rel |-> RelIndex, html |-> DocIndex], [rel |-> RelPdf, html |-> PdfBytes],
       [rel |-> RelPage, html |-> DocPage] >> }

FilesOf(corpus) ==
  [r \in {corpus[k].rel : k \in 1..Len(corpus)} |->
     corpus[CHOOSE k \in 1..Len(corpus) : corpus[k].rel = r].html]

\* the states the cache file can be in before a run
CacheFiles ==
  { [kind |-> "missing", map |-> EmptyMap],
    [kind |-> "corrupt", map |-> EmptyMap],
    [kind |-> "list", map |-> EmptyMap],
    [kind |-> "dict", map |-> [t \in {tA} |-> ServiceText(tA)]] }

\* a glossary file: an exact rule, a regex rule whose pattern does not
\* compile, and a rule that rewrites what the first one produced
GlossaryRules ==
  << <<tA, tBB, "exact">>, <<<<"(">>, tE, "regex">>, <<tBB, tCCC, "regex">> >>

\* the glossary files (rows of source, target, mode): none, or the rules
Glossaries == { <<>>, GlossaryRules }

\* the command lines: with and without --modify-ru (line 486)
Args == [modify_ru : BOOLEAN]

\* os.environ after load_env (lines 493-497): a variable is unset, blank, or
\* holds a value
EnvValues == {NoneVal, tBlank, <<"k">>}

Environments == [YANDEX_API_KEY : EnvValues, YANDEX_FOLDER_ID : EnvValues]

\* os.environ.get(name, '').strip(), lines 498-499
EnvGet(env, name) == Strip(IF env[name] = NoneVal THEN <<>> ELSE env[name])

\* only the API key is looked at
MissingCredentials_KeyOnly(env) == EnvGet(env, "YANDEX_API_KEY") = <<>>

\* not api_key or not folder_id, line 500
MissingCredentials(env) ==
  EnvGet(env, "YANDEX_API_KEY") = <<>> \/ EnvGet(env, "YANDEX_FOLDER_ID") = <<>>

\* the configuration of the runs over the corpus
RunConfig == [batch_size |-> 4, max_chars |-> 20, rpm |-> 2]

\* the places in the walk at which rglob may come to the output root: it
\* lists the files of the source root itself before it goes down into the
\* subdirectories, of which the output root is one
DstPositions(order) ==
  {k \in 0..Len(order) : \A j \in 1..Len(order) : Len(order[j]) = 1 => j <= k}

\* the files under the output root, in the order of the walk
ListDst(order, present) == SelectSeq(order, LAMBDA r : r \in present)

\* every order in which the elements of a set can be iterated
Orderings(S) ==
  {o \in [1..Cardinality(S) -> S] : \A j, k \in 1..Cardinality(S) : o[j] = o[k] => j = k}

\* the translatable attributes that occur in the files
UsedAttrsOf(tree) ==
  UNION {DOMAIN tree[k].attrs : k \in 1..Len(tree)} \cap TRANSLATE_ATTRS

(***************************************************************************)
(* State                                                                   *)
(***************************************************************************)
VARIABLES
  translator,      \* YandexTranslator: batch_size, max_chars, rpm
  glossary,        \* the rules load_glossary returned
  paths,           \* the relative paths of the source walk, in walk order
  args,            \* the command-line options of the run
  environ,         \* os.environ after load_env
  srcFiles,        \* the documents under the source root
  dstFiles,        \* the documents under the output root
  cacheFile,       \* the cache file
  reportFile,      \* translation_report.csv: its rows, or NoneVal
  run,             \* number of the current run of the program
  pc,              \* position of the run
  walk,            \* the paths the walk has not reached yet
  skipped,         \* the paths this walk left out at line 528
  attrOrder,       \* iteration order of TRANSLATE_ATTRS in this process
  cache,           \* CacheStore.cache
  report_rows,
  rel,             \* rel_path of the document in process_html_file
  soup, nodes, node_texts, attr_items, attr_texts, meta_items, meta_texts,
  replaced,        \* the soup as replace_in_html left it (line 419)
  mapping, unique, \* translate_unique
  texts, i, batch, results, window_start, requests_used, attempt, backoff,
  now,             \* time.time(), in seconds since translate was called
  built,           \* the batches this call of translate has built
  sends,           \* requests made for the current batch
  sendLog,         \* the times of the requests of this call of translate
  raised,          \* the exception that ended the run, or "none"
  sent,            \* per text, the batches of this run that contained it
  obtained,        \* texts the service has translated in this run
  prev,            \* what the previous run left behind
  applied,         \* the roles in which the annotator was applied to soup
  extractions      \* what each extraction from soup has yielded so far

diskVars == <<srcFiles, dstFiles, cacheFile, reportFile>>
confVars == <<translator, glossary, paths, args, environ>>
annotVars == <<applied, extractions>>
docVars == <<rel, soup, nodes, node_texts, attr_items, attr_texts, meta_items,
             meta_texts, mapping, unique, replaced>>
callVars == <<texts, i, batch, results, window_start, requests_used, attempt,
              backoff, now, built, sends, sendLog>>
runVars == <<run, walk, skipped, attrOrder, cache, report_rows, prev>>
ghostVars == <<sent, obtained>>
vars == <<diskVars, confVars, docVars, callVars, runVars, ghostVars, annotVars,
          pc, raised>>

NoDoc ==
  /\ rel = <<>> /\ soup = EmptySoup
  /\ nodes = <<>> /\ node_texts = <<>>
  /\ attr_items = <<>> /\ attr_texts = <<>>
  /\ meta_items = <<>> /\ meta_texts = <<>>
  /\ mapping = EmptyMap /\ unique = <<>> /\ replaced = EmptySoup

NoCall ==
  /\ texts = <<>> /\ i = 0 /\ batch = <<>> /\ results = <<>>
  /\ window_start = 0 /\ requests_used = 0 /\ attempt = 0 /\ backoff = 1
  /\ now = 0 /\ built = <<>> /\ sends = 0 /\ sendLog = <<>>

\* no document is being processed
ResetDoc ==
  /\ rel' = <<>> /\ soup' = EmptySoup
  /\ nodes' = <<>> /\ node_texts' = <<>>
  /\ attr_items' = <<>> /\ attr_texts' = <<>>
  /\ meta_items' = <<>> /\ meta_texts' = <<>>
  /\ mapping' = EmptyMap /\ unique' = <<>> /\ replaced' = EmptySoup

\* the locals of translate at its entry (lines 89-92)
EnterTranslate ==
  /\ i' = 0 /\ batch' = <<>> /\ results' = <<>>
  /\ window_start' = 0 /\ requests_used' = 0 /\ attempt' = 0 /\ backoff' = 1
  /\ now' = 0 /\ built' = <<>> /\ sends' = 0 /\ sendLog' = <<>>

NoPrev == [status |-> "none", raised |-> "none",
           dstFiles |-> [r \in {} |-> EmptySoup], obtained |-> {}]

\* before the first run: the corpus, the output root still empty
Init ==
  /\ translator = RunConfig
  /\ glossary \in Glossaries
  /\ args \in Args
  /\ environ \in Environments
  /\ applied = <<>> /\ extractions = <<>>
  /\ \E corpus \in Corpora :
       /\ paths = [k \in 1..Len(corpus) |-> corpus[k].rel]
       /\ srcFiles = FilesOf(corpus)
  /\ dstFiles = [r \in {} |-> EmptySoup]
  /\ cacheFile \in CacheFiles
  /\ reportFile = NoneVal
  /\ run = 1 /\ pc = "start" /\ walk = <<>> /\ skipped = {} /\ attrOrder = <<>>
  /\ cache = [isDict |-> TRUE, map |-> EmptyMap]
  /\ report_rows = <<>>
  /\ NoDoc /\ NoCall
  /\ raised = "none"
  /\ sent = [t \in {} |-> 0] /\ obtained = {}
  /\ prev = NoPrev

(***************************************************************************)
(* Translation Orchestrator and Reinsertion Engine                         *)
(***************************************************************************)
\* lines 319-323: the mapping and the list of texts to send, text by text
RECURSIVE DedupTexts(_, _, _, _)
DedupTexts(ts, c, m, u) ==
  IF ts = <<>> THEN [mapping |-> m, unique |-> u]
  ELSE LET t == Head(ts)
       IN  IF t \in DOMAIN m THEN DedupTexts(Tail(ts), c, m, u)
           ELSE LET got == CacheGet(c, t)
                    \* cache.get(t) or None: an empty translation counts as None
                    v == IF got = <<>> THEN NoneVal ELSE got
                IN  DedupTexts(Tail(ts), c,
                      [x \in (DOMAIN m) \cup {t} |-> IF x = t THEN v ELSE m[x]],
                      IF v = NoneVal THEN Append(u, t) ELSE u)

\* lines 326-329: zip(unique, translated)
RECURSIVE StoreTranslated(_, _, _, _, _)
StoreTranslated(u, translated, c, m, g) ==
  IF u = <<>> \/ translated = <<>> THEN [cache |-> c, mapping |-> m]
  ELSE LET src == Head(u)
           tgt == apply_post_glossary(Head(translated), g)
       IN  StoreTranslated(Tail(u), Tail(translated), CacheSet(c, src, tgt),
             [x \in (DOMAIN m) \cup {src} |-> IF x = src THEN tgt ELSE m[x]], g)

\* every text gets the replacement of the first one
replace_texts_FirstForAll(ts, m) ==
  [k \in 1..Len(ts) |-> IF ts[1] \in DOMAIN m THEN m[ts[1]] ELSE ts[1]]

\* mapping.get(t, t) for every text
replace_texts(ts, m) ==
  [k \in 1..Len(ts) |-> IF ts[k] \in DOMAIN m THEN m[ts[k]] ELSE ts[k]]

\* None is written as it is
SafeText_KeepsNone(new_text) == new_text

\* new_text if new_text is not None else ''
SafeText(new_text) == IF new_text = NoneVal THEN <<>> ELSE new_text

\* lines 223-225: node.replace_with(safe_text) for the zipped pairs
RECURSIVE ReplaceNodes(_, _, _)
ReplaceNodes(tree, ns, new_texts) ==
  IF ns = <<>> \/ new_texts = <<>> THEN tree
  ELSE ReplaceNodes(
         [tree EXCEPT ![Head(ns)].kind = "text",
                      ![Head(ns)].text = SafeText(Head(new_texts))],
         Tail(ns), Tail(new_texts))

SetAttr(tree, id, attr, value) ==
  [tree EXCEPT ![id].attrs = [a \in (DOMAIN @) \cup {attr} |->
                                IF a = attr THEN value ELSE @[a]]]

\* lines 226-227
RECURSIVE ReplaceAttrs(_, _, _)
ReplaceAttrs(tree, items, new_texts) ==
  IF items = <<>> \/ new_texts = <<>> THEN tree
  ELSE ReplaceAttrs(
         SetAttr(tree, Head(items)[2], Head(items)[3], SafeText(Head(new_texts))),
         Tail(items), Tail(new_texts))

\* lines 228-229
RECURSIVE ReplaceMetas(_, _, _)
ReplaceMetas(tree, items, new_texts) ==
  IF items = <<>> \/ new_texts = <<>> THEN tree
  ELSE ReplaceMetas(
         SetAttr(tree, Head(items)[2], "content", SafeText(Head(new_texts))),
         Tail(items), Tail(new_texts))

replace_in_html(tree, ns, n_texts, a_items, a_texts, m_items, m_texts) ==
  ReplaceMetas(ReplaceAttrs(ReplaceNodes(tree, ns, n_texts), a_items, a_texts),
               m_items, m_texts)

(***************************************************************************)
(* Run Driver                                                              *)
(***************************************************************************)
\* lines 500-502: without credentials main prints an error and leaves with
\* sys.exit(2)
ExitNoCredentials ==
  /\ pc = "start"
  /\ MissingCredentials(environ)
  /\ pc' = "exited"
  /\ UNCHANGED <<diskVars, confVars, annotVars, docVars, callVars, runVars,
                 ghostVars, raised>>

\* main up to the walk (lines 504-515): the translator and the glossary are
\* in place, the cache is loaded
Start ==
  /\ pc = "start"
  /\ ~ MissingCredentials(environ)
  /\ cache' = LoadCache(cacheFile)
  /\ report_rows' = <<>>
  /\ \E k \in DstPositions(paths) :
       walk' = SubSeq(paths, 1, k) \o <<DstRel>> \o SubSeq(paths, k + 1, Len(paths))
  /\ skipped' = {}
  /\ \E o \in Orderings(TRANSLATE_ATTRS) :
       attrOrder' = SelectSeq(o,
                      LAMBDA a : \E r \in DOMAIN srcFiles : a \in UsedAttrsOf(srcFiles[r]))
  /\ pc' = "walk"
  /\ UNCHANGED <<diskVars, confVars, annotVars, docVars, callVars, ghostVars, run, prev, raised>>

\* the walk reaches the output root (line 523 passes the directory over,
\* rglob then lists what is under it at that moment)
WalkDir ==
  /\ pc = "walk" /\ walk # <<>>
  /\ Head(walk) = DstRel
  /\ walk' = [k \in 1..Len(ListDst(paths, DOMAIN dstFiles)) |->
                DstRel \o ListDst(paths, DOMAIN dstFiles)[k]] \o Tail(walk)
  /\ UNCHANGED <<diskVars, confVars, annotVars, docVars, callVars, ghostVars, run,
                 skipped, attrOrder, cache, report_rows, prev, pc, raised>>

\* lines 526-528: a file under the output root is left out
WalkSkip ==
  /\ pc = "walk" /\ walk # <<>>
  /\ Head(walk) # DstRel
  /\ SkipsOutput(Head(walk))
  /\ walk' = Tail(walk)
  /\ skipped' = skipped \cup {Head(walk)}
  /\ UNCHANGED <<diskVars, confVars, annotVars, docVars, callVars, ghostVars, run,
                 attrOrder, cache, report_rows, prev, pc, raised>>

\* lines 543-545 and mirror_non_html: a file that is no HTML document is
\* copied to the same relative path under the output root
Mirror ==
  /\ pc = "walk" /\ walk # <<>>
  /\ Head(walk) # DstRel
  /\ ~ SkipsOutput(Head(walk))
  /\ ~ is_html_file(Head(walk))
  /\ dstFiles' = [r \in (DOMAIN dstFiles) \cup {Head(walk)} |->
                    IF r = Head(walk) THEN FileAt(srcFiles, dstFiles, Head(walk))
                    ELSE dstFiles[r]]
  /\ walk' = Tail(walk)
  /\ UNCHANGED <<srcFiles, cacheFile, reportFile, confVars, annotVars, docVars,
                 callVars, ghostVars, run, skipped, attrOrder, cache, report_rows,
                 prev, pc, raised>>

\* lines 307-313: the units of the three kinds and their texts after the
\* pre-translation glossary
collect_texts_for_translation(tree, g, order) ==
  [nodes |-> extract_text_nodes(tree),
   node_texts |-> [k \in 1..Len(extract_text_nodes(tree)) |->
                     apply_pre_glossary(tree[extract_text_nodes(tree)[k]].text, g)],
   attr_items |-> extract_attr_texts(tree, order),
   attr_texts |-> [k \in 1..Len(extract_attr_texts(tree, order)) |->
                     apply_pre_glossary(extract_attr_texts(tree, order)[k][1], g)],
   meta_items |-> extract_meta_descriptions(tree),
   meta_texts |-> [k \in 1..Len(extract_meta_descriptions(tree)) |->
                     apply_pre_glossary(extract_meta_descriptions(tree)[k][1], g)]]

\* one HTML file of the walk (lines 536-542): process_russian_html_file,
\* then process_html_file up to the call of translator.translate
WalkNext ==
  /\ pc = "walk" /\ walk # <<>>
  /\ Head(walk) # DstRel
  /\ ~ SkipsOutput(Head(walk))
  /\ is_html_file(Head(walk))
  /\ \E annotated \in {process_russian_html_file(
                          FileAt(srcFiles, dstFiles, Head(walk)), Head(walk))} :
     \E col \in {collect_texts_for_translation(annotated, glossary, attrOrder)} :
     \E all_texts \in {col.node_texts \o col.attr_texts \o col.meta_texts} :
     \E getFails \in {~ cache.isDict /\ all_texts # <<>>} :
     \E dedup \in {IF getFails THEN [mapping |-> EmptyMap, unique |-> <<>>]
                   ELSE DedupTexts(all_texts, cache, EmptyMap, <<>>)} :
         /\ srcFiles' = IF UnderRoot(Head(walk), DstRel) THEN srcFiles
                         ELSE [srcFiles EXCEPT ![Head(walk)] = annotated]
         /\ dstFiles' = IF UnderRoot(Head(walk), DstRel)
                         THEN [dstFiles EXCEPT
                                 ![SubSeq(Head(walk), Len(DstRel) + 1, Len(Head(walk)))] =
                                   annotated]
                         ELSE dstFiles
         /\ rel' = Head(walk) /\ soup' = annotated
         /\ nodes' = col.nodes /\ node_texts' = col.node_texts
         /\ attr_items' = col.attr_items /\ attr_texts' = col.attr_texts
         /\ meta_items' = col.meta_items /\ meta_texts' = col.meta_texts
         /\ mapping' = dedup.mapping /\ unique' = dedup.unique
         /\ replaced' = EmptySoup
         /\ texts' = dedup.unique
         /\ pc' = IF getFails THEN "failed"
                  ELSE IF dedup.unique # <<>> THEN "translate" ELSE "returned"
         /\ raised' = IF getFails THEN "AttributeError" ELSE raised
  /\ EnterTranslate
  /\ UNCHANGED <<cacheFile, reportFile, confVars, annotVars, runVars, ghostVars>>

\* one pass of the outer loop of translate up to the first request
\* (lines 93-113): the batch is built, the rate limiter may sleep
TranslateBatch ==
  /\ pc = "translate"
  /\ i < Len(texts)
  /\ Len(built) < MaxPasses
  /\ \E b \in {BuildBatch(texts, i, <<>>, 0, translator.batch_size, translator.max_chars)} :
     \E limited \in {requests_used >= translator.rpm} :
     \E sleep_for \in {Max(0, WINDOW - (now - window_start))} :
         /\ i' = b.i
         /\ batch' = b.batch
         /\ built' = Append(built, b.batch)
         /\ now' = IF limited THEN now + sleep_for ELSE now
         /\ window_start' = IF limited THEN now + sleep_for ELSE window_start
         /\ requests_used' = IF limited THEN 0 ELSE requests_used
         /\ sent' = [t \in (DOMAIN sent) \cup SeqToSet(b.batch) |->
                       (IF t \in DOMAIN sent THEN sent[t] ELSE 0)
                       + (IF t \in SeqToSet(b.batch) THEN 1 ELSE 0)]
  /\ backoff' = 1 /\ attempt' = 0 /\ sends' = 0
  /\ pc' = "request"
  /\ UNCHANGED <<diskVars, confVars, annotVars, docVars, runVars, texts, results, sendLog,
                 obtained, raised>>

\* line 128
TranslateReturn ==
  /\ pc = "translate"
  /\ i >= Len(texts)
  /\ pc' = "returned"
  /\ UNCHANGED <<diskVars, confVars, annotVars, docVars, callVars, runVars, ghostVars, raised>>

\* the request of line 116 goes out
Sending ==
  /\ pc = "request"
  /\ sendLog' = Append(sendLog, now)
  /\ sends' = sends + 1

\* lines 121-122 and 126-127: sleep, double the backoff, next attempt
Retry ==
  /\ now' = now + backoff
  /\ backoff' = NextBackoff(backoff)
  /\ attempt' = attempt + 1
  /\ pc' = IF attempt + 1 < ATTEMPTS THEN "request" ELSE "translate"

\* lines 116-119: the service answers
RequestOk ==
  /\ Sending
  /\ results' = results \o ServiceTranslate(batch)
  /\ requests_used' = requests_used + 1
  /\ obtained' = obtained \cup SeqToSet(batch)
  /\ pc' = "translate"
  /\ UNCHANGED <<diskVars, confVars, annotVars, docVars, runVars, texts, i, batch,
                 window_start, attempt, backoff, now, built, sent, raised>>

\* lines 120-122: 429 Too Many Requests
RequestRateLimited ==
  /\ Sending
  /\ Retry
  /\ UNCHANGED <<diskVars, confVars, annotVars, docVars, runVars, texts, i, batch, results,
                 window_start, requests_used, built, sent, obtained, raised>>

\* lines 123-127: requests.RequestException
RequestFailed ==
  /\ Sending
  /\ IF attempt >= LAST_ATTEMPT
     THEN /\ pc' = "failed" /\ raised' = "RequestException"
          /\ UNCHANGED <<now, backoff, attempt>>
     ELSE /\ Retry /\ UNCHANGED raised
  /\ UNCHANGED <<diskVars, confVars, annotVars, docVars, runVars, texts, i, batch, results,
                 window_start, requests_used, built, sent, obtained>>

\* every count is the number of text runs
ReportRow_NodesOnly(rel_path, n_texts, a_texts, m_texts) ==
  <<rel_path, Len(n_texts), Len(n_texts), Len(n_texts)>>

\* lines 433-440: the row of a document (its path and the three counts)
ReportRow(rel_path, n_texts, a_texts, m_texts) ==
  <<rel_path, Len(n_texts), Len(a_texts), Len(m_texts)>>

\* the rest of translate_unique and of process_html_file (lines 326-329,
\* 415-440): translations are cached, the units overwritten, the page
\* annotated and written, the report row added
Reinsert ==
  /\ pc = "returned"
  /\ walk # <<>>
  /\ \E stored \in {StoreTranslated(unique, results, cache, mapping, glossary)} :
     \E replaced_soup \in {replace_in_html(soup,
                        nodes, replace_texts(node_texts, stored.mapping),
                        attr_items, replace_texts(attr_texts, stored.mapping),
                        meta_items, replace_texts(meta_texts, stored.mapping))} :
     \E linked \in {set_lang_and_hreflang(replaced_soup, rel, TRUE)} :
     \E switched \in {inject_language_switcher(linked, rel, TRUE)} :
     \E out \in {OutHtml(switched, HasDoctype(soup))} :
         /\ cache' = stored.cache
         /\ mapping' = stored.mapping
         /\ soup' = switched
         /\ replaced' = replaced_soup
         /\ dstFiles' = [r \in (DOMAIN dstFiles) \cup {rel} |->
                           IF r = rel THEN out ELSE dstFiles[r]]
         /\ report_rows' = Append(report_rows,
              ReportRow(rel, node_texts, attr_texts, meta_texts))
  /\ walk' = Tail(walk)
  /\ pc' = "walk"
  /\ texts' = <<>> /\ EnterTranslate
  /\ UNCHANGED <<srcFiles, cacheFile, reportFile, confVars, annotVars, rel, nodes, node_texts,
                 attr_items, attr_texts, meta_items, meta_texts, unique,
                 run, skipped, attrOrder, prev, ghostVars, raised>>

\* src_root.rglob('*.pdf'), line 458
PdfPaths ==
  {r \in DOMAIN srcFiles : Suffix(r[Len(r)]) = ".pdf"}
  \cup {DstRel \o r : r \in {q \in DOMAIN dstFiles : Suffix(q[Len(q)]) = ".pdf"}}

\* translate_pdfs_if_any with pdftotext installed and a PDF below the source
\* root: line 460 adds a str to a Path, which raises TypeError
PdfFail ==
  /\ pc = "walk" /\ walk = <<>>
  /\ PdfPaths # {}
  /\ pc' = "failed"
  /\ raised' = "TypeError"
  /\ UNCHANGED <<diskVars, confVars, annotVars, docVars, callVars, runVars, ghostVars>>

\* the end of main (lines 547-551): translate_pdfs_if_any returns at once
\* (no pdftotext, or no PDF), the report and the cache are written
Finish ==
  /\ pc = "walk" /\ walk = <<>>
  /\ \E has_pdftotext \in BOOLEAN : ~ (has_pdftotext /\ PdfPaths # {})
  /\ reportFile' = report_rows
  /\ cacheFile' = SaveCache(cache)
  /\ pc' = "done"
  /\ UNCHANGED <<srcFiles, dstFiles, confVars, annotVars, docVars, callVars, runVars,
                 ghostVars, raised>>

\* the program is started again over the same directories
Rerun ==
  /\ pc \in {"done", "failed", "exited"}
  /\ run < MaxRuns
  /\ prev' = [status |-> pc, raised |-> raised, dstFiles |-> dstFiles,
               obtained |-> obtained]
  /\ run' = run + 1
  /\ pc' = "start"
  /\ raised' = "none"
  /\ walk' = <<>> /\ skipped' = {} /\ attrOrder' = <<>>
  /\ cache' = [isDict |-> TRUE, map |-> EmptyMap]
  /\ report_rows' = <<>>
  /\ ResetDoc /\ texts' = <<>> /\ EnterTranslate
  /\ sent' = [t \in {} |-> 0] /\ obtained' = {}
  /\ UNCHANGED <<diskVars, confVars, annotVars>>

\* the exit status of the process: sys.exit(2) of line 502, 1 for an
\* exception nobody caught, 0 at the end of main
ExitStatus ==
  IF pc = "exited" THEN 2
  ELSE IF pc = "failed" THEN 1
  ELSE IF pc = "done" THEN 0
  ELSE -1

Next ==
  \/ ExitNoCredentials
  \/ Start
  \/ WalkDir
  \/ WalkSkip
  \/ Mirror
  \/ WalkNext
  \/ TranslateBatch
  \/ TranslateReturn
  \/ RequestOk
  \/ RequestRateLimited
  \/ RequestFailed
  \/ Reinsert
  \/ PdfFail
  \/ Finish
  \/ Rerun

Spec == Init /\ [][Next]_vars

TypeOK ==
  /\ pc \in {"start", "walk", "translate", "request", "returned", "failed", "done",
            "annotate", "extract", "exited", "stored"}
  /\ run \in 1..MaxRuns
  /\ attempt \in 0..ATTEMPTS

(***************************************************************************)
(* The translation client on its own: translate called directly            *)
(***************************************************************************)
\* the texts a direct call is made with (duplicates and oversized included)
ClientTexts == {tA, tBB, tCCC}

SeqsUpTo(S, n) == UNION {[1..k -> S] : k \in 0..n}

\* the values main accepts from the environment (lines 510-512; int() takes
\* any integer)
ClientConfigs ==
  [batch_size : 0..MaxBatchSize, max_chars : 1..MaxChars, rpm : 1..MaxRpm]

InitClient ==
  /\ translator \in ClientConfigs
  /\ texts \in SeqsUpTo(ClientTexts, MaxTexts)
  /\ glossary = <<>> /\ paths = <<>>
  /\ args = [modify_ru |-> FALSE]
  /\ environ = [YANDEX_API_KEY |-> <<"k">>, YANDEX_FOLDER_ID |-> <<"k">>]
  /\ applied = <<>> /\ extractions = <<>>
  /\ srcFiles = [r \in {} |-> EmptySoup]
  /\ dstFiles = [r \in {} |-> EmptySoup]
  /\ cacheFile = [kind |-> "missing", map |-> EmptyMap]
  /\ reportFile = NoneVal
  /\ run = 1 /\ pc = "translate" /\ walk = <<>> /\ skipped = {} /\ attrOrder = <<>>
  /\ cache = [isDict |-> TRUE, map |-> EmptyMap]
  /\ report_rows = <<>>
  /\ NoDoc
  /\ i = 0 /\ batch = <<>> /\ results = <<>>
  /\ window_start = 0 /\ requests_used = 0 /\ attempt = 0 /\ backoff = 1
  /\ now = 0 /\ built = <<>> /\ sends = 0 /\ sendLog = <<>>
  /\ raised = "none"
  /\ sent = [t \in {} |-> 0] /\ obtained = {}
  /\ prev = NoPrev

NextClient ==
  \/ TranslateBatch
  \/ TranslateReturn
  \/ RequestOk
  \/ RequestRateLimited
  \/ RequestFailed

SpecClient == InitClient /\ [][NextClient]_vars

(***************************************************************************)
(* The orchestrator on its own: translate_unique called on the texts of a  *)
(* document, with the translation client behind it                         *)
(***************************************************************************)
\* the configurations of the client behind translate_unique
UniqueConfigs ==
  [batch_size : 1..MaxBatchSize, max_chars : {MaxChars}, rpm : {MaxRpm}]

\* the caches translate_unique may find: empty, or holding a translation
UniqueCaches ==
  { [isDict |-> TRUE, map |-> EmptyMap],
    [isDict |-> TRUE, map |-> [t \in {tA} |-> ServiceText(tA)]] }

\* translate_unique up to the call of translator.translate (lines 317-325)
InitUnique ==
  /\ translator \in UniqueConfigs
  /\ glossary \in Glossaries /\ paths = <<>>
  /\ args = [modify_ru |-> FALSE]
  /\ environ = [YANDEX_API_KEY |-> <<"k">>, YANDEX_FOLDER_ID |-> <<"k">>]
  /\ applied = <<>> /\ extractions = <<>>
  /\ srcFiles = [r \in {} |-> EmptySoup]
  /\ dstFiles = [r \in {} |-> EmptySoup]
  /\ cacheFile = [kind |-> "missing", map |-> EmptyMap]
  /\ reportFile = NoneVal
  /\ run = 1 /\ walk = <<>> /\ skipped = {} /\ attrOrder = <<>>
  /\ report_rows = <<>>
  /\ rel = <<>> /\ soup = EmptySoup /\ replaced = EmptySoup
  /\ nodes = <<>> /\ attr_items = <<>> /\ attr_texts = <<>>
  /\ meta_items = <<>> /\ meta_texts = <<>>
  /\ cache \in UniqueCaches
  /\ node_texts \in SeqsUpTo(ClientTexts, MaxTexts)
  /\ mapping = DedupTexts(node_texts, cache, EmptyMap, <<>>).mapping
  /\ unique = DedupTexts(node_texts, cache, EmptyMap, <<>>).unique
  /\ texts = unique
  /\ pc = IF unique # <<>> THEN "translate" ELSE "returned"
  /\ i = 0 /\ batch = <<>> /\ results = <<>>
  /\ window_start = 0 /\ requests_used = 0 /\ attempt = 0 /\ backoff = 1
  /\ now = 0 /\ built = <<>> /\ sends = 0 /\ sendLog = <<>>
  /\ raised = "none"
  /\ sent = [t \in {} |-> 0] /\ obtained = {}
  /\ prev = NoPrev

\* lines 326-330: the translations are zipped with the texts sent, passed
\* through the post-translation glossary, cached and put into the mapping
StoreUnique ==
  /\ pc = "returned"
  /\ \E stored \in {StoreTranslated(unique, results, cache, mapping, glossary)} :
         /\ cache' = stored.cache
         /\ mapping' = stored.mapping
  /\ pc' = "stored"
  /\ UNCHANGED <<diskVars, confVars, annotVars, callVars, ghostVars, raised,
                 rel, soup, nodes, node_texts, attr_items, attr_texts, meta_items,
                 meta_texts, unique, replaced, run, walk, skipped, attrOrder,
                 report_rows, prev>>

NextUnique ==
  \/ TranslateBatch
  \/ TranslateReturn
  \/ RequestOk
  \/ RequestRateLimited
  \/ RequestFailed
  \/ StoreUnique

SpecUnique == InitUnique /\ [][NextUnique]_vars

(***************************************************************************)
(* The locale annotator on its own: process_russian_html_file and the      *)
(* annotation of process_html_file applied to parsed documents             *)
(***************************************************************************)
\* deepest relative path, and the most applications that are followed
MaxDepth == 2
MaxApply == 3

\* the rel_path of a page d directories below the source root
PathOfDepth(d) == [k \in 1..d |-> "docs"] \o <<"page.html">>

AnnotPaths == {PathOfDepth(d) : d \in 0..MaxDepth}

\* what the lxml parser hands over: with or without a doctype; no element
\* at all (an empty file), <html> with only a head, with only a body, or
\* with both; <html> with or without a lang attribute
AnnotDoc(doctype, shape, lang) ==
  LET dt == IF doctype THEN <<<<1, MkDoctype>>>> ELSE <<>>
      h == Len(dt) + 2
      html == <<1, MkTag("html", IF lang = "" THEN NoAttrs ELSE [lang |-> lang])>>
      items == CASE shape = "none" -> <<>>
                 [] shape = "head" -> <<html, <<h, MkTag("head", NoAttrs)>>,
                                        <<h + 1, MkTag("title", NoAttrs)>>,
                                        <<h + 2, MkText(tA)>> >>
                 [] shape = "body" -> <<html, <<h, MkTag("body", NoAttrs)>>,
                                        <<h + 1, MkTag("p", NoAttrs)>>,
                                        <<h + 2, MkText(tA)>> >>
                 [] shape = "both" -> <<html, <<h, MkTag("head", NoAttrs)>>,
                                        <<h, MkTag("body", NoAttrs)>>,
                                        <<h + 2, MkTag("p", NoAttrs)>>,
                                        <<h + 3, MkText(tA)>> >>
  IN  DocFrom(EmptySoup, dt \o items)

AnnotDocs ==
  {AnnotDoc(d, s, l) : d \in BOOLEAN, s \in {"none", "head", "body", "both"},
                       l \in {"", "en"}}

InitAnnot ==
  /\ translator = RunConfig
  /\ glossary = <<>> /\ paths = <<>>
  /\ args = [modify_ru |-> FALSE]
  /\ environ = [YANDEX_API_KEY |-> <<"k">>, YANDEX_FOLDER_ID |-> <<"k">>]
  /\ srcFiles = [r \in {} |-> EmptySoup]
  /\ dstFiles = [r \in {} |-> EmptySoup]
  /\ cacheFile = [kind |-> "missing", map |-> EmptyMap]
  /\ reportFile = NoneVal
  /\ run = 1 /\ pc = "annotate" /\ walk = <<>> /\ skipped = {} /\ attrOrder = <<>>
  /\ cache = [isDict |-> TRUE, map |-> EmptyMap]
  /\ report_rows = <<>>
  /\ soup \in AnnotDocs
  /\ rel \in AnnotPaths
  /\ applied = <<>> /\ extractions = <<>>
  /\ nodes = <<>> /\ node_texts = <<>>
  /\ attr_items = <<>> /\ attr_texts = <<>>
  /\ meta_items = <<>> /\ meta_texts = <<>>
  /\ mapping = EmptyMap /\ unique = <<>> /\ replaced = EmptySoup
  /\ NoCall
  /\ raised = "none"
  /\ sent = [t \in {} |-> 0] /\ obtained = {}
  /\ prev = NoPrev

\* so far the document was only annotated as a source page
OnlySourceRole == \A k \in 1..Len(applied) : applied[k] = "ru"

\* process_russian_html_file on the file, which is read again afterwards
AnnotateSource ==
  /\ pc = "annotate"
  /\ Len(applied) < MaxApply /\ OnlySourceRole
  /\ soup' = process_russian_html_file(soup, rel)
  /\ applied' = Append(applied, "ru")
  /\ UNCHANGED <<diskVars, confVars, callVars, runVars, ghostVars, pc, raised,
                 rel, nodes, node_texts, attr_items, attr_texts, meta_items,
                 meta_texts, mapping, unique, replaced, extractions>>

\* lines 421-431 of process_html_file on the annotated source file
AnnotateOutput ==
  /\ pc = "annotate"
  /\ applied # <<>> /\ Len(applied) < MaxApply /\ OnlySourceRole
  /\ soup' = write_translated(soup, soup, rel)
  /\ applied' = Append(applied, "uz")
  /\ UNCHANGED <<diskVars, confVars, callVars, runVars, ghostVars, pc, raised,
                 rel, nodes, node_texts, attr_items, attr_texts, meta_items,
                 meta_texts, mapping, unique, replaced, extractions>>

NextAnnot ==
  \/ AnnotateSource
  \/ AnnotateOutput

SpecAnnot == InitAnnot /\ [][NextAnnot]_vars

(***************************************************************************)
(* The extractor on its own: one document, extracted repeatedly by one     *)
(* process and by the processes of later runs                              *)
(***************************************************************************)
\* the most extractions from the document that are followed
MaxExtract == 3

\* <html><head><meta property="og:description" content="bb"></head>
\* <body><img title="a" alt="bb"><p>ccc</p><input placeholder="e"></body></html>
DocAttrs ==
  DocFrom(EmptySoup, <<
    <<1, MkTag("html", NoAttrs)>>,
    <<2, MkTag("head", NoAttrs)>>,
    <<3, MkTag("meta", [property |-> "og:description", content |-> tBB])>>,
    <<2, MkTag("body", NoAttrs)>>,
    <<5, MkTag("img", [title |-> tA, alt |-> tBB])>>,
    <<5, MkTag("p", NoAttrs)>>,
    <<7, MkText(tCCC)>>,
    <<5, MkTag("input", [placeholder |-> tE])>> >>)

\* the documents extraction is applied to
ExtractDocs == {DocIndex, DocPage, DocAttrs}

\* the order in which this process iterates the set TRANSLATE_ATTRS: the
\* hashes of its strings are salted anew in every process
AttrOrders == Orderings(TRANSLATE_ATTRS)

\* what one extraction yields: the units of the three kinds (lines 307-312)
\* and the texts translate_unique would send for them (lines 319-325)
Extraction(tree, g, order) ==
  LET col == collect_texts_for_translation(tree, g, order)
  IN  [nodes |-> col.nodes, attr_items |-> col.attr_items,
       meta_items |-> col.meta_items,
       texts |-> DedupTexts(col.node_texts \o col.attr_texts \o col.meta_texts,
                            [isDict |-> TRUE, map |-> EmptyMap], EmptyMap, <<>>).unique]

InitExtract ==
  /\ translator = RunConfig
  /\ glossary \in Glossaries /\ paths = <<>>
  /\ args = [modify_ru |-> FALSE]
  /\ environ = [YANDEX_API_KEY |-> <<"k">>, YANDEX_FOLDER_ID |-> <<"k">>]
  /\ srcFiles = [r \in {} |-> EmptySoup]
  /\ dstFiles = [r \in {} |-> EmptySoup]
  /\ cacheFile = [kind |-> "missing", map |-> EmptyMap]
  /\ reportFile = NoneVal
  /\ run = 1 /\ pc = "extract" /\ walk = <<>> /\ skipped = {}
  /\ attrOrder \in AttrOrders
  /\ cache = [isDict |-> TRUE, map |-> EmptyMap]
  /\ report_rows = <<>>
  /\ soup \in ExtractDocs
  /\ rel = RelIndex
  /\ applied = <<>> /\ extractions = <<>>
  /\ nodes = <<>> /\ node_texts = <<>>
  /\ attr_items = <<>> /\ attr_texts = <<>>
  /\ meta_items = <<>> /\ meta_texts = <<>>
  /\ mapping = EmptyMap /\ unique = <<>> /\ replaced = EmptySoup
  /\ NoCall
  /\ raised = "none"
  /\ sent = [t \in {} |-> 0] /\ obtained = {}
  /\ prev = NoPrev

\* collect_texts_for_translation on the document, and the texts that
\* translate_unique hands to translate
ExtractUnits ==
  /\ pc = "extract"
  /\ Len(extractions) < MaxExtract
  /\ \E e \in {Extraction(soup, glossary, attrOrder)} :
     \E col \in {collect_texts_for_translation(soup, glossary, attrOrder)} :
         /\ nodes' = e.nodes /\ node_texts' = col.node_texts
         /\ attr_items' = e.attr_items /\ attr_texts' = col.attr_texts
         /\ meta_items' = e.meta_items /\ meta_texts' = col.meta_texts
         /\ unique' = e.texts
         /\ extractions' = Append(extractions, e)
  /\ UNCHANGED <<diskVars, confVars, callVars, runVars, ghostVars, pc, raised,
                 rel, soup, mapping, replaced, applied>>

\* the program is started again: a new process, with its own iteration
\* order of the set
NewProcess ==
  /\ pc = "extract"
  /\ run < MaxRuns
  /\ run' = run + 1
  /\ attrOrder' \in AttrOrders
  /\ UNCHANGED <<diskVars, confVars, annotVars, docVars, callVars, ghostVars,
                 walk, skipped, cache, report_rows, prev, pc, raised>>

NextExtract ==
  \/ ExtractUnits
  \/ NewProcess

SpecExtract == InitExtract /\ [][NextExtract]_vars

(***************************************************************************)
(* Properties                                                              *)
(***************************************************************************)
\* total number of characters of a batch
RECURSIVE CharsOf(_)
CharsOf(b) == IF b = <<>> THEN 0 ELSE Len(Head(b)) + CharsOf(Tail(b))

\* C1: when translate returns normally, the result has the length of the
\* input and its element k is the service's translation of input element k
\* (no batch is left out of the result).
C1_ResultMatchesInput ==
  pc = "returned" =>
    /\ Len(results) = Len(texts)
    /\ \A k \in 1..Len(texts) : k <= Len(results) => results[k] = ServiceText(texts[k])

\* C2: a transport failure on the last permitted attempt of a batch ends the
\* run: translate does not return, the step caches nothing and writes no
\* file, no text of the call has a translation in the cache, the page being
\* processed is not written, and nothing is written afterwards in this run.
C2_FailureAborts ==
  [][ /\ (RequestFailed /\ sends >= 5) =>
           (pc' = "failed" /\ raised' = "RequestException")
      /\ (raised' = "RequestException") =>
           /\ pc' = "failed"
           /\ cache' = cache
           /\ UNCHANGED <<dstFiles, cacheFile, reportFile>>
           /\ \A t \in SeqToSet(texts') : CacheGet(cache', t) \in {NoneVal, <<>>}
           /\ (run' = 1 => rel' \notin DOMAIN dstFiles')
           /\ (run' = 2 /\ rel' \in DOMAIN dstFiles' =>
                 /\ rel' \in DOMAIN prev'.dstFiles
                 /\ dstFiles'[rel'] = prev'.dstFiles[rel'])
      /\ (pc = "failed") =>
           (pc' = "start" /\ UNCHANGED <<dstFiles, cacheFile, reportFile>>)
    ]_vars

\* C2 witness: a page with texts to translate whose batch failed six times
C2_Witness ==
  /\ pc = "failed" /\ raised = "RequestException"
  /\ sends = 6 /\ unique # <<>> /\ rel # <<>>

\* C3: rate-limit responses and transport failures share one ceiling: a
\* batch is sent at most 6 times, and a further request for it is pending
\* only while fewer than 6 have been made.
C3_AttemptCeiling ==
  /\ sends <= 6
  /\ (pc = "request" => sends < 6)

\* C3 witness: a batch that was sent six times and then given up
C3_Witness == sends = 6 /\ pc = "translate" /\ batch # <<>>

C5_RateLimit ==
  \A j \in 1..Len(sendLog) :
    Cardinality({k \in 1..Len(sendLog) :
                   sendLog[j] <= sendLog[k] /\ sendLog[k] < sendLog[j] + 60})
      <= translator.rpm

\* C6: in one run no text goes to the service in more than one batch, and a
\* text that has an entry in the cache is not sent.
C6_SentAtMostOnce ==
  /\ \A t \in DOMAIN sent : sent[t] <= 1
  /\ (pc \in {"translate", "request"} =>
        \A t \in SeqToSet(texts) : t \notin DOMAIN cache.map)

\* C7: the run after a completed run sends nothing to the service and
\* writes the same output documents.
C7_SecondRunIdempotent ==
  (run = 2 /\ prev.status = "done") =>
    /\ DOMAIN sent = {}
    /\ (pc = "done" => dstFiles = prev.dstFiles)

\* C8: whatever the cache file holds, loading it and every later get and set
\* succeed: the run is never ended by the cache store.
C8_CacheNeverAborts == raised # "AttributeError"

\* C9: in the run after an aborted run, no text the aborted run had got
\* translated is sent to the service again.
C9_RerunUsesCache ==
  (run = 2 /\ prev.status = "failed" /\ prev.raised = "RequestException") =>
    \A t \in prev.obtained : t \notin DOMAIN sent

\* the names of the tags enclosing a node
TagsAbove(tree, id) == {tree[a].name : a \in Ancestors(tree, id)}

\* C10: no extracted unit (text run, attribute value, meta content) has a
\* script, style, code, pre or noscript ancestor, at any depth.
C10_NoUnitUnderExcluded ==
  /\ \A k \in 1..Len(nodes) :
       TagsAbove(soup, nodes[k]) \cap {"script", "style", "code", "pre", "noscript"} = {}
  /\ \A k \in 1..Len(attr_items) :
       TagsAbove(soup, attr_items[k][2]) \cap {"script", "style", "code", "pre", "noscript"} = {}
  /\ \A k \in 1..Len(meta_items) :
       TagsAbove(soup, meta_items[k][2]) \cap {"script", "style", "code", "pre", "noscript"} = {}

\* the key under which a unit's source text is looked up and translated
KeyOf(source) == apply_pre_glossary(source, glossary)

\* the text the mapping of the document gives a key: its translation, or
\* the empty string when it has none
FinalOf(key) == IF mapping[key] = NoneVal THEN <<>> ELSE mapping[key]

\* the document process_html_file parsed: the source file as annotated
ParsedDoc == srcFiles[rel]

\* process_html_file has just finished a document
PageDone == pc = "walk" /\ rel # <<>>

\* (source text, new text) of every unit of the three kinds
UnitPairs ==
  {<<ParsedDoc[nodes[k]].text, replaced[nodes[k]].text>> : k \in 1..Len(nodes)}
  \cup {<<ParsedDoc[attr_items[k][2]].attrs[attr_items[k][3]],
          replaced[attr_items[k][2]].attrs[attr_items[k][3]]>> : k \in 1..Len(attr_items)}
  \cup {<<ParsedDoc[meta_items[k][2]].attrs["content"],
          replaced[meta_items[k][2]].attrs["content"]>> : k \in 1..Len(meta_items)}

\* C11: the replacement lists are as long as the unit lists; after
\* replace_in_html every unit holds, at its own place, the final text of its
\* own source text, equal source texts got equal final texts over the three
\* kinds, and every other node, attribute and the tree shape are as parsed.
C11_UnitsOverwrittenInPlace ==
  PageDone =>
    /\ Len(replace_texts(node_texts, mapping)) = Len(nodes)
    /\ Len(replace_texts(attr_texts, mapping)) = Len(attr_items)
    /\ Len(replace_texts(meta_texts, mapping)) = Len(meta_items)
    /\ Len(replaced) = Len(ParsedDoc)
    /\ \A id \in 1..Len(ParsedDoc) :
         /\ replaced[id].parent = ParsedDoc[id].parent
         /\ replaced[id].kids = ParsedDoc[id].kids
         /\ replaced[id].name = ParsedDoc[id].name
         /\ IF \E k \in 1..Len(nodes) : nodes[k] = id
            THEN replaced[id].text = FinalOf(KeyOf(ParsedDoc[id].text))
            ELSE /\ replaced[id].text = ParsedDoc[id].text
                 /\ replaced[id].kind = ParsedDoc[id].kind
         /\ DOMAIN replaced[id].attrs = DOMAIN ParsedDoc[id].attrs
         /\ \A a \in DOMAIN ParsedDoc[id].attrs :
              IF \/ \E k \in 1..Len(attr_items) :
                      attr_items[k][2] = id /\ attr_items[k][3] = a
                 \/ a = "content" /\ \E k \in 1..Len(meta_items) : meta_items[k][2] = id
              THEN replaced[id].attrs[a] = FinalOf(KeyOf(ParsedDoc[id].attrs[a]))
              ELSE replaced[id].attrs[a] = ParsedDoc[id].attrs[a]
    /\ \A p, q \in UnitPairs : p[1] = q[1] => p[2] = q[2]

\* C11 witness: a finished page in which a text run, an attribute and a meta
\* content share one source text, with a translation written into all three
\* and another unit translated differently
C11_Witness ==
  /\ PageDone
  /\ \E n \in 1..Len(nodes), a \in 1..Len(attr_items), m \in 1..Len(meta_items) :
       /\ ParsedDoc[nodes[n]].text = attr_items[a][1]
       /\ attr_items[a][1] = meta_items[m][1]
       /\ replaced[nodes[n]].text = ServiceText(attr_items[a][1])
       /\ replaced[attr_items[a][2]].attrs[attr_items[a][3]] = replaced[nodes[n]].text
       /\ replaced[meta_items[m][2]].attrs["content"] = replaced[nodes[n]].text
  /\ \E p, q \in UnitPairs : p[2] # q[2]

\* C12: a unit whose text has no translation in the mapping is written as
\* the empty string, never left with its source text, and the page is
\* written without an error.
C12_MissingBecomesEmpty ==
  PageDone =>
    /\ raised = "none"
    /\ rel \in DOMAIN dstFiles
    /\ \A k \in 1..Len(nodes) :
         mapping[node_texts[k]] = NoneVal =>
           /\ replaced[nodes[k]].text = <<>>
           /\ replaced[nodes[k]].text # ParsedDoc[nodes[k]].text
    /\ \A k \in 1..Len(attr_items) :
         mapping[attr_texts[k]] = NoneVal =>
           replaced[attr_items[k][2]].attrs[attr_items[k][3]] = <<>>
    /\ \A k \in 1..Len(meta_items) :
         mapping[meta_texts[k]] = NoneVal =>
           replaced[meta_items[k][2]].attrs["content"] = <<>>

\* C12 witness: a page written after the service left texts of all three
\* kinds without a translation
C12_Witness ==
  /\ PageDone
  /\ \E k \in 1..Len(nodes) : mapping[node_texts[k]] = NoneVal
  /\ \E k \in 1..Len(attr_items) : mapping[attr_texts[k]] = NoneVal
  /\ \E k \in 1..Len(meta_items) : mapping[meta_texts[k]] = NoneVal

\* str.replace written out from the left: old is non-empty
RECURSIVE AllOccurrencesReplaced(_, _, _)
AllOccurrencesReplaced(t, old, new) ==
  IF Len(t) < Len(old) THEN t
  ELSE IF SubSeq(t, 1, Len(old)) = old
       THEN new \o AllOccurrencesReplaced(SubSeq(t, Len(old) + 1, Len(t)), old, new)
       ELSE <<Head(t)>> \o AllOccurrencesReplaced(Tail(t), old, new)

\* what rule k and the rules after it make of a text; a rule whose pattern
\* does not compile is skipped
RECURSIVE RulesApplied(_, _, _)
RulesApplied(t, rules, k) ==
  IF k > Len(rules) THEN t
  ELSE RulesApplied(
         IF rules[k][3] = "regex" /\ "(" \in SeqToSet(rules[k][1]) THEN t
         ELSE AllOccurrencesReplaced(t, rules[k][1], rules[k][2]),
         rules, k + 1)

\* the source texts of the units extracted from a parsed document
UnitSources(tree, order) ==
  {tree[id].text : id \in SeqToSet(extract_text_nodes(tree))}
  \cup {it[1] : it \in SeqToSet(extract_attr_texts(tree, order))}
  \cup {it[1] : it \in SeqToSet(extract_meta_descriptions(tree))}

\* t occurs in s
Occurs(t, s) == \E k \in 1..Len(s) : IsPrefixAt(s, k, t)

\* the texts looked up, stored or sent for the document in process
PageKeys ==
  (DOMAIN mapping) \cup SeqToSet(unique) \cup SeqToSet(texts) \cup SeqToSet(batch)
  \cup SeqToSet(Flatten(built))

\* C13: every text looked up in the cache, stored in it or sent to the
\* service is an extracted unit's text with all glossary rules applied in
\* rule order; with the exact rule a -> bb no such text contains "a".
C13_KeysAreGlossaryApplied ==
  /\ rel # <<>> =>
       PageKeys \subseteq
         {RulesApplied(u, glossary, 1) : u \in UnitSources(srcFiles[rel], attrOrder)}
  /\ pc \in {"walk", "translate", "request", "returned", "failed"} =>
       (DOMAIN cache.map) \ (DOMAIN LoadCache(cacheFile).map) \subseteq
         {RulesApplied(u, glossary, 1) :
            u \in UNION {UnitSources(srcFiles[r], attrOrder) : r \in DOMAIN srcFiles}}
  /\ glossary = GlossaryRules =>
       \A key \in PageKeys \cup ((DOMAIN cache.map) \ (DOMAIN LoadCache(cacheFile).map)) :
         ~ Occurs(tA, key)

\* C13 witness: with the rules loaded, a unit "a" was looked up, sent and
\* cached under "ccc", what the rules make of it in their order
C13_Witness ==
  /\ glossary = GlossaryRules /\ PageDone
  /\ tA \in UnitSources(srcFiles[rel], attrOrder)
  /\ tCCC \in SeqToSet(unique) /\ tCCC \in DOMAIN cache.map
  /\ tCCC \in DOMAIN sent /\ tA \notin DOMAIN sent

\* a file that holds a parsed HTML document
IsHtmlDoc(file) == file[1].kind = "doc"

\* the alternate-language links of a written document
AltLinksOf(tree) ==
  {id \in 1..Len(tree) :
     /\ tree[id].name = "link"
     /\ "rel" \in DOMAIN tree[id].attrs /\ tree[id].attrs["rel"] = "alternate"
     /\ "hreflang" \in DOMAIN tree[id].attrs}

\* the language-switch controls of a written document
SwitchersOf(tree) == {id \in 1..Len(tree) : IsSwitcherDiv(tree[id])}

\* the anchor inside a language-switch control
AnchorOf(tree, div) == tree[tree[div].kids[1]]

\* C14: every translated document under the output root carries exactly one
\* alternate-language link and exactly one language-switch control, both
\* with the source locale and the path back to the source document.
C14_OneLinkOneSwitcherBack ==
  \A r \in DOMAIN dstFiles :
    IsHtmlDoc(dstFiles[r]) =>
      /\ Cardinality(AltLinksOf(dstFiles[r])) = 1
      /\ Cardinality(SwitchersOf(dstFiles[r])) = 1
      /\ \A id \in AltLinksOf(dstFiles[r]) :
           /\ dstFiles[r][id].attrs["hreflang"] = "ru"
           /\ dstFiles[r][id].attrs["href"] = UpLevels(Len(r)) \o r
      /\ \A id \in SwitchersOf(dstFiles[r]) :
           /\ AnchorOf(dstFiles[r], id).attrs["hreflang"] = "ru"
           /\ AnchorOf(dstFiles[r], id).attrs["href"] = UpLevels(Len(r)) \o r

\* C15: every application of process_russian_html_file leaves exactly one
\* alternate link to the translated page and exactly one language-switch
\* control, and an application after the first changes nothing.
C15_SourceAnnotationIdempotent ==
  [][AnnotateSource =>
       /\ Cardinality({id \in AltLinksOf(soup') :
                         /\ soup'[id].attrs["hreflang"] = "uz"
                         /\ soup'[id].attrs["href"] = AltHref(rel, FALSE)}) = 1
       /\ Cardinality(AltLinksOf(soup')) = 1
       /\ Cardinality(SwitchersOf(soup')) = 1
       /\ (applied # <<>> => soup' = soup)
    ]_vars

\* the role of the last annotation, and the locale it links to
LastRole == applied[Len(applied)]
OtherLocale == IF LastRole = "ru" THEN "uz" ELSE "ru"

\* the number of leading ascent segments of a relative link
RECURSIVE Ascents(_)
Ascents(href) ==
  IF href # <<>> /\ Head(href) = ".." THEN 1 + Ascents(Tail(href)) ELSE 0

\* a relative link resolved from a directory (both given by their
\* segments below the source root); a link that climbs above the source
\* root resolves to no document
RECURSIVE Resolve(_, _)
Resolve(dir, href) ==
  IF href = <<>> THEN dir
  ELSE IF Head(href) = ".."
       THEN (IF dir = <<>> THEN <<>> ELSE Resolve(SubSeq(dir, 1, Len(dir) - 1), Tail(href)))
       ELSE Resolve(Append(dir, Head(href)), Tail(href))

\* the targets of the link and of the control injected by the last annotation
InjectedHrefs ==
  {soup[id].attrs["href"] :
     id \in {l \in AltLinksOf(soup) : soup[l].attrs["hreflang"] = OtherLocale}}
  \cup {AnchorOf(soup, id).attrs["href"] :
          id \in {d \in SwitchersOf(soup) :
                    AnchorOf(soup, d).attrs["hreflang"] = OtherLocale}}

\* where the annotated document lives, and its counterpart
CarrierPath == IF LastRole = "uz" THEN <<"uz">> \o rel ELSE rel
CounterpartPath == IF LastRole = "uz" THEN rel ELSE <<"uz">> \o rel

\* C16: for rel_path P with d separators the link of the translated role is
\* d+1 ascents then P, the link of the source role is d ascents, the locale
\* directory and P, and resolved from the directory of the page that
\* carries it each link is the counterpart page.
C16_LinksReachCounterpart ==
  applied # <<>> =>
    /\ InjectedHrefs # {}
    /\ \A h \in InjectedHrefs :
         /\ Ascents(h) = (IF LastRole = "uz" THEN Len(rel) ELSE Len(rel) - 1)
         /\ SubSeq(h, Ascents(h) + 1, Len(h)) = (IF LastRole = "uz" THEN rel ELSE <<"uz">> \o rel)
         /\ Resolve(SubSeq(CarrierPath, 1, Len(CarrierPath) - 1), h) = CounterpartPath

\* C16 witness: a page two directories deep, annotated as source and then
\* as translated page, with both the link and the control injected
C16_Witness ==
  /\ applied = <<"ru", "uz">> /\ Len(rel) = 3
  /\ Cardinality(InjectedHrefs) = 1
  /\ SwitchersOf(soup) # {}
  /\ \E h \in InjectedHrefs : Ascents(h) = 3

\* C17: whatever elements the parsed document had, after an annotation in
\* either role it has a head that holds the alternate link and a body that
\* holds the language-switch control.
C17_HeadAndBodySynthesized ==
  applied # <<>> =>
    /\ FindTag(soup, 1, "head") # 0
    /\ \E id \in 1..Len(soup) :
         /\ soup[id].parent = FindTag(soup, 1, "head")
         /\ IsAltLink(soup[id], OtherLocale)
    /\ FindTag(soup, 1, "body") # 0
    /\ \E id \in SwitchersOf(soup) :
         /\ FindTag(soup, 1, "body") \in Ancestors(soup, id)
         /\ AnchorOf(soup, id).attrs["hreflang"] = OtherLocale

\* C18: nothing under the output root is annotated, translated or mirrored
\* by the walk: the document in process and every report row lie outside
\* it, and no file is written into a copy of the output root nested in the
\* output root.
C18_OutputRootNeverWalked ==
  /\ rel # <<>> => ~ UnderRoot(rel, DstRel)
  /\ \A k \in 1..Len(report_rows) : ~ UnderRoot(report_rows[k][1], DstRel)
  /\ \A r \in DOMAIN dstFiles : ~ UnderRoot(r, DstRel)
  /\ \A p \in skipped : UnderRoot(p, DstRel)

\* C18 witness: in the first run the walk came to the output root after it
\* had written a page and an asset there, and left both out
C18_Witness ==
  /\ run = 1 /\ pc = "done"
  /\ DstRel \o RelIndex \in skipped
  /\ DstRel \o RelPdf \in skipped

\* C19: without --modify-ru every file under the source root (outside the
\* output root) stays as it was before the run.
C19_SourcesUntouchedWithoutOption ==
  ~ args.modify_ru => srcFiles \in {FilesOf(corpus) : corpus \in Corpora}

\* the rows of a completed run: one per HTML document of the walk, in walk
\* order, with the numbers of units extracted from the document as parsed
ExpectedRows ==
  LET docs == SelectSeq(paths, is_html_file)
  IN  [k \in 1..Len(docs) |->
        <<docs[k],
          Len(extract_text_nodes(srcFiles[docs[k]])),
          Len(extract_attr_texts(srcFiles[docs[k]], attrOrder)),
          Len(extract_meta_descriptions(srcFiles[docs[k]]))>>]

\* C20: the report changes only in the step that completes a run; what that
\* step writes is one row per HTML document processed, in processing
\* order, with the document's three unit counts and no other row; a step
\* that aborts the run leaves the report as it was.
C20_ReportOfCompletedRun ==
  [][ /\ (reportFile' # reportFile =>
            pc = "walk" /\ walk = <<>> /\ pc' = "done")
      /\ (pc # "done" /\ pc' = "done" => reportFile' = ExpectedRows)
      /\ (pc' = "failed" => reportFile' = reportFile)
    ]_vars

\* C20 witness: a completed run whose report has the rows of both pages
C20_Witness ==
  /\ pc = "done"
  /\ Len(reportFile) = 2
  /\ reportFile[1][1] = RelIndex /\ reportFile[2][1] = RelPage
  /\ reportFile[1][2] > reportFile[1][3] /\ reportFile[1][4] > reportFile[2][4]

\* a variable of the environment that is unset, empty or all white space
IsBlankValue(v) == v = NoneVal \/ \A k \in 1..Len(v) : IsWs(v[k])

\* the API key or the folder id is missing or blank
CredentialsAbsent ==
  \/ IsBlankValue(environ.YANDEX_API_KEY)
  \/ IsBlankValue(environ.YANDEX_FOLDER_ID)

\* C21: when the API key or the folder id is missing or blank, the run does
\* not begin: the process can only exit, with a non-zero status; no
\* document is read, no request is built or sent, and no file under the
\* source root or the output root, nor the cache file or the report, changes.
C21_NoCredentialsNoRun ==
  /\ [](CredentialsAbsent =>
          /\ pc \in {"start", "exited"}
          /\ NoDoc /\ NoCall
          /\ sent = [t \in {} |-> 0] /\ obtained = {}
          /\ (pc = "exited" => ExitStatus # 0))
  /\ [][CredentialsAbsent =>
          /\ UNCHANGED diskVars
          /\ (pc = "start" => pc' = "exited")]_vars

\* C21 witness: the process has exited over a folder id of white space
\* although the API key is set
C21_Witness ==
  /\ pc = "exited"
  /\ environ.YANDEX_API_KEY = <<"k">>
  /\ environ.YANDEX_FOLDER_ID = tBlank

\* C22: all extractions of the same document, by the same process or by
\* the processes of different runs, yield the same units in the same
\* order for each kind (attribute units of one element included), and so the
\* same sequence of texts to send.
C22_ExtractionDeterministic ==
  \A j, k \in 1..Len(extractions) : extractions[j] = extractions[k]

\* the entries of mapping m are kept in mapping n: every key is still
\* there, and a translation that was not empty is the same
KeepsEntries(m, n) ==
  \A t \in DOMAIN m : t \in DOMAIN n /\ (m[t] # <<>> => n[t] = m[t])

\* the run is past the loading of the cache and has not ended
InRun == pc \in {"walk", "translate", "request", "returned", "failed"}

\* C23: within a run the cache only grows: no step of the run removes a
\* key or overwrites a translation that is not empty, at every point of the
\* run the cache holds what was loaded from the cache file, and the mapping
\* a completed run writes to the cache file contains every entry the file
\* held when the run loaded it.
C23_CacheMonotonic ==
  /\ [](InRun => KeepsEntries(LoadCache(cacheFile).map, cache.map))
  /\ [][run' = run => KeepsEntries(cache.map, cache'.map)]_vars
  /\ [][pc # "done" /\ pc' = "done" =>
          /\ cacheFile'.kind = "dict" \/ ~ cache.isDict
          /\ KeepsEntries(LoadCache(cacheFile).map, cacheFile'.map)]_vars

\* C23 witness: a completed run has written a cache file that holds an entry
\* it had loaded (under these glossary rules no run produces the key a)
\* next to an entry it added
C23_Witness ==
  /\ pc = "done"
  /\ glossary = GlossaryRules
  /\ cacheFile.kind = "dict"
  /\ tA \in DOMAIN cacheFile.map /\ cacheFile.map[tA] = ServiceText(tA)
  /\ tCCC \in DOMAIN cacheFile.map

\* the wait after the k-th failed attempt for a batch, in seconds
WaitOf(k) == Min(30, 2 ^ (k - 1))

\* C24: for each batch the wait after the k-th failed attempt, whether it
\* was rate-limited or a transport failure, lasts min(30, 2^(k-1)) seconds
\* (1 second first, doubled every time, never more than 30), and the first
\* request of every batch goes out with the backoff back at 1 second.
C24_BackoffSchedule ==
  /\ [](pc = "request" => backoff = WaitOf(attempt + 1))
  /\ [][pc = "request" /\ attempt' = attempt + 1 =>
          now' - now = WaitOf(attempt' ) /\ now' - now <= 30]_vars
  /\ [][pc = "translate" /\ pc' = "request" => attempt' = 0 /\ backoff' = 1]_vars

\* C24 witness: the second batch starts with a backoff of 1 second after
\* the first one was given up through waits of 1, 2, 4, 8, 16 and 30 seconds
C24_Witness ==
  /\ pc = "request"
  /\ Len(built) = 2
  /\ attempt = 0 /\ backoff = 1 /\ sends = 0
  /\ now = 1 + 2 + 4 + 8 + 16 + 30
  /\ Len(sendLog) = 6

\* what the pipeline is to keep for a text: the translation the service
\* returns for that text, after the post-translation glossary
OwnTranslation(t) == apply_post_glossary(ServiceText(t), glossary)

\* C25: every entry of the cache, and every translation in the mapping
\* used for reinsertion, belongs to its own key: it is the translation the
\* service returned for that very text, never the one of another text,
\* whatever the service answered to the requests.
C25_EntriesBelongToTheirText ==
  /\ \A t \in DOMAIN cache.map : cache.map[t] = OwnTranslation(t)
  /\ \A t \in DOMAIN mapping : mapping[t] \in {NoneVal, OwnTranslation(t)}

\* C26: translate terminates for every configuration main accepts: every
\* pass of its outer loop (the step that builds a batch) consumes at least
\* one input text, and no batch is requested more than 6 times.
C26_EveryPassConsumes ==
  /\ [][pc = "translate" /\ pc' = "request" => i' > i /\ batch' # <<>>]_vars
  /\ [](sends <= 6)

====
